---- MODULE Spec2Model ----
(***************************************************************************)
(* Content-ingestion pipeline of ContentHarvest-AI.                        *)
(*                                                                         *)
(* The persistence coordinator vectorize_and_store_web_content             *)
(* (backend/content/content_processor.py) calls the language model,        *)
(* inserts a WebContent record into the document store (MongoDB), builds   *)
(* one vector payload and upserts it into the vector store (Qdrant).       *)
(* The two revisions of the vector store client (backend/rag/qdrant.py     *)
(* and backend/models/rag/qdrant.py) are modelled as operations of their   *)
(* own in SpecStore.                                                       *)
(*                                                                         *)
(* The coordinator is a coroutine: it runs without interruption between    *)
(* two awaits.  Its only awaits are the two insert_web_content calls, so   *)
(* a request is at "idle", suspended at the await of the try block         *)
(* ("await_try"), suspended at the await of the except block               *)
(* ("await_exc"), has returned a result ("returned") or has let an         *)
(* exception escape ("raised").                                            *)
(*                                                                         *)
(* Every call to a collaborator (model service, document store, embedding  *)
(* service, vector store) is modelled by its outcome: it either returns or *)
(* raises, whatever the reason.  What a request did is recorded in its     *)
(* log, one event per call.                                                *)
(***************************************************************************)
EXTENDS Integers, Sequences, FiniteSets, TLC

(***************************************************************************)
(* Bounds of the model.                                                    *)
(***************************************************************************)
MaxRequests == 2
MaxStoreInserts == 2

(***************************************************************************)
(* Program constants.                                                      *)
(***************************************************************************)
TEXT_LIMIT == 4000
HEADING_LIMIT == 10

Requests == 1..MaxRequests

(***************************************************************************)
(* Python values that end up in a payload are tagged: a UUID object, a     *)
(* str, None, and JSON null.                                               *)
(***************************************************************************)
Uuid(x) == <<"uuid", x>>
Str(x) == <<"str", x>>
PyNone == <<"none">>
JsonNull == <<"null">>

\* str(v)
PyStr(v) ==
    IF v[1] = "uuid" THEN Str(v[2])
    ELSE IF v = PyNone THEN Str("None")
    ELSE v

\* The value the vector store holds for v once the client has serialised the
\* payload to JSON: a UUID becomes its canonical string, None becomes null.
JsonValue(v) ==
    IF v[1] = "uuid" THEN Str(v[2])
    ELSE IF v = PyNone THEN JsonNull
    ELSE v

Tenants == {Uuid("a"), Uuid("b")}

\* Optional values: None is Python's None, Some(x) a present value.
None == <<>>
Some(x) == <<x>>

(***************************************************************************)
(* Strings are sequences of one-character strings.                         *)
(***************************************************************************)
\* The backtick character.
BT == "bt"

FENCE_JSON == <<BT, BT, BT, "j", "s", "o", "n">>
FENCE == <<BT, BT, BT>>

IsPrefixAt(s, pat, i) ==
    /\ i + Len(pat) - 1 <= Len(s)
    /\ \A k \in 1..Len(pat) : s[i + k - 1] = pat[k]

\* str.replace(pat, ""): leftmost, non-overlapping occurrences are removed
\* in one pass over the original string.
RECURSIVE ReplaceFrom(_, _, _)
ReplaceFrom(s, pat, i) ==
    IF i > Len(s) THEN <<>>
    ELSE IF IsPrefixAt(s, pat, i) THEN ReplaceFrom(s, pat, i + Len(pat))
    ELSE <<s[i]>> \o ReplaceFrom(s, pat, i + 1)

Replace_FirstOnly(s, pat) ==
    LET occ == {i \in 1..Len(s) : IsPrefixAt(s, pat, i)}
    IN IF occ = {} THEN s
       ELSE LET i == CHOOSE k \in occ : \A j \in occ : k <= j
            IN SubSeq(s, 1, i - 1) \o SubSeq(s, i + Len(pat), Len(s))

Replace(s, pat) == ReplaceFrom(s, pat, 1)

IsSpace(c) == c \in {" ", "\n"}

RECURSIVE LStrip(_)
LStrip(s) ==
    IF s # <<>> /\ IsSpace(Head(s)) THEN LStrip(Tail(s)) ELSE s

RECURSIVE RStrip(_)
RStrip(s) ==
    IF s # <<>> /\ IsSpace(s[Len(s)]) THEN RStrip(SubSeq(s, 1, Len(s) - 1)) ELSE s

Strip(s) == LStrip(RStrip(s))

\* content_processor.py 135-137
CleanContent(information_content) ==
    Strip(Replace(Replace(information_content, FENCE_JSON), FENCE))

\* What json.loads would accept, on the answers of the model.
ParsesAsJson(s) == s = <<"{", "}">>

(***************************************************************************)
(* Inputs.                                                                 *)
(***************************************************************************)
FetchErrors == {"timeout", "dns"}

\* Answers of the model: JSON inside a fence, and prose.
Answers ==
    { <<BT, BT, BT, "j", "s", "o", "n", "\n", "{", "}", "\n", BT, BT, BT>>,
      <<"n", "o">> }

\* Why the model call raised.
LlmErrors == {"llm_timeout", "llm_transport"}

Urls == {"u1"}

\* The dict scrape_url returns (content_processor.py 69-83).
ScrapeOk(url) ==
    [success |-> TRUE, original_url |-> url, all_text |-> <<"t">>,
     headings |-> <<"h">>, error |-> None]

ScrapeFailed(url, e) ==
    [success |-> FALSE, original_url |-> url, all_text |-> <<>>,
     headings |-> <<>>, error |-> Some(e)]

ScrapeResults ==
    {ScrapeOk(u) : u \in Urls} \cup {ScrapeFailed(u, e) : u \in Urls, e \in FetchErrors}

Take(s, n) == SubSeq(s, 1, IF Len(s) < n THEN Len(s) ELSE n)

(***************************************************************************)
(* State.                                                                  *)
(*   req         the coroutine of every ingestion request                  *)
(*   mongo       the web_content collection of the document store          *)
(*   qdrant      the points of the web_content collection of the vector    *)
(*               store                                                     *)
(*   uuids       number of uuid4() values drawn by direct calls of the     *)
(*               vector store client                                       *)
(*   store_calls number of direct insert calls of the vector store client  *)
(*   last_call   the last direct call of the vector store client and what  *)
(*               it returned                                               *)
(*   retrieval   the context retrieval and prompt building of one request  *)
(*   fn          the last application of a function to an input, and its   *)
(*               value                                                     *)
(* Identifiers never repeat: the k-th document identifier handed to        *)
(* request r is ObjectId(r, k), the n-th uuid4() drawn on behalf of        *)
(* request r is Uuid4(<<r, n>>), and the n-th drawn by a direct call of    *)
(* the store client is Uuid4(<<0, n>>).                                    *)
(***************************************************************************)
VARIABLES req, mongo, qdrant, uuids, store_calls, last_call, retrieval, fn

vars == <<req, mongo, qdrant, uuids, store_calls, last_call, retrieval, fn>>

ObjectId(r, k) == <<r, k>>

NoCall ==
    [op |-> "none", self_tenant_id |-> PyNone, tenant_id |-> PyNone,
     vector_payloads |-> <<>>, raised |-> FALSE, hits |-> {}]

IdleRequest ==
    [pc |-> "idle", tenant_id |-> PyNone, scrape_result |-> None,
     llm_response |-> None, cleaned_content |-> None, e |-> None,
     vector_payloads |-> <<>>, mongo_ids |-> <<>>, uuids |-> 0,
     log |-> <<>>, result |-> None]

\* No retrieval has run; no function has been applied.
IdleRetrieval ==
    [pc |-> "idle", tenant_id |-> PyNone, ev |-> "none", hits |-> <<>>,
     output_context |-> <<>>, input_context |-> <<>>, prompts |-> None]

NoFn == [op |-> "none", arg |-> <<>>, out |-> <<>>]

Init ==
    /\ req = [r \in Requests |-> IdleRequest]
    /\ mongo = {}
    /\ qdrant = {}
    /\ uuids = 0
    /\ store_calls = 0
    /\ last_call = NoCall
    /\ retrieval = IdleRetrieval
    /\ fn = NoFn

(***************************************************************************)
(* Document store: MongoDBManager.insert_web_content builds a WebContent   *)
(* and inserts it; the store hands back the document with its identifier.  *)
(***************************************************************************)
WebContent(id, url, raw_text, headings, llm_raw_response, processed_content, tenant_id) ==
    [id |-> id, tenant_id |-> tenant_id, url |-> url, raw_text |-> raw_text,
     headings |-> headings, llm_raw_response |-> llm_raw_response,
     processed_content |-> processed_content]

\* content.insert(): the collection after the insert.
InsertLost(collection, content) == collection

Insert(collection, content) == collection \cup {content}

(***************************************************************************)
(* ContentProcessor (services/vector_schemas.py).                          *)
(***************************************************************************)
\* The embedding is a value of the embedding service for the text; only
\* that the vector is non-empty matters to the store client.
Embedding == <<1>>

VectorPayload_NoTenant(vector, url, tenant_id, content) ==
    [vector |-> vector,
     payload |-> [url |-> url, tenant_id |-> PyNone, content |-> content,
                  timestamp |-> Str("now")]]

VectorPayload(vector, url, tenant_id, content) ==
    [vector |-> vector,
     payload |-> [url |-> url, tenant_id |-> tenant_id, content |-> content,
                  timestamp |-> Str("now")]]

\* vector_payloads of a new ContentProcessor: the default of the field.
\* Every instance gets a list of its own.
DefaultPayloads_Leftover ==
    <<VectorPayload(Embedding, "u0", Uuid("b"),
                    [llm_response |-> None, all_text |-> <<>>, headings |-> <<>>,
                     mongo_id |-> Str(<<0, 1>>)])>>

DefaultPayloads == <<>>

\* add_payload: get_embedding(content["input_text"]) returns a vector or
\* raises (the key is missing, the embedding service fails).  This is the
\* list once it has returned: the payload is appended.
add_payload_Twice(vector_payloads, tenant_id, content, url) ==
    Append(Append(vector_payloads, VectorPayload(Embedding, url, tenant_id, content)),
           VectorPayload(Embedding, url, tenant_id, content))

add_payload(vector_payloads, tenant_id, content, url) ==
    Append(vector_payloads, VectorPayload(Embedding, url, tenant_id, content))

\* The content mapping the coordinator hands to add_payload.
PayloadContent_StaleReference(cleaned_content, scrape_result, mongo_id) ==
    [llm_response |-> cleaned_content,
     all_text |-> Take(scrape_result.all_text, TEXT_LIMIT),
     headings |-> Take(scrape_result.headings, HEADING_LIMIT),
     mongo_id |-> Str(<<mongo_id[1], 1>>)]

PayloadContent(cleaned_content, scrape_result, mongo_id) ==
    [llm_response |-> cleaned_content,
     all_text |-> Take(scrape_result.all_text, TEXT_LIMIT),
     headings |-> Take(scrape_result.headings, HEADING_LIMIT),
     mongo_id |-> Str(mongo_id)]


(***************************************************************************)
(* Vector store.  A payload is a Python dict: a function from its keys.    *)
(***************************************************************************)
\* {**d, k: v}
DictSet(d, k, v) ==
    [x \in (DOMAIN d) \cup {k} |-> IF x = k THEN v ELSE d[x]]

\* An entry of vector_payloads: a dict with "vector" and "payload", or
\* some other object.
DictEntry(vector, payload) == [isdict |-> TRUE, vector |-> vector, payload |-> payload]
NotADict == [isdict |-> FALSE, vector |-> <<>>, payload |-> <<>>]

\* ContentProcessor.get_payloads: model_dump of every payload.
get_payloads(vector_payloads) ==
    [i \in 1..Len(vector_payloads) |->
        DictEntry(vector_payloads[i].vector, vector_payloads[i].payload)]

PointStruct(id, vector, payload) == [id |-> id, vector |-> vector, payload |-> payload]

\* The point as the store holds it: the payload serialised to JSON.
JsonPoint(p) ==
    [p EXCEPT !.payload =
        [k \in DOMAIN p.payload |->
            IF k = "tenant_id" THEN JsonValue(p.payload[k]) ELSE p.payload[k]]]

\* client.upsert(points) that returned: the collection afterwards.
Upsert(collection, points) ==
    collection \cup {JsonPoint(points[i]) : i \in 1..Len(points)}

\* A value of str(uuid.uuid4()): the n-th one drawn by caller c.
Uuid4(c, n) == Str(<<c, n>>)

(***************************************************************************)
(* backend/rag/qdrant.py, the client the coordinator imports.              *)
(***************************************************************************)
\* The payload of a point: the caller's payload and the session_id.
RagPayload_KeepsCallers(payload, session_id) ==
    IF "session_id" \in DOMAIN payload THEN payload
    ELSE DictSet(payload, "session_id", session_id)

RagPayload(payload, session_id) == DictSet(payload, "session_id", session_id)

\* The points the list comprehension builds; the caller c has drawn uu
\* values of uuid4 so far: the next one is the session_id, the following
\* ones are the point ids.
RagPoints(vector_payloads, c, uu) ==
    [i \in 1..Len(vector_payloads) |->
        PointStruct(Uuid4(c, uu + 1 + i), vector_payloads[i].vector,
                    RagPayload(vector_payloads[i].payload, Uuid4(c, uu + 1)))]

FirstNotADict(vector_payloads) ==
    LET bad == {i \in 1..Len(vector_payloads) : ~vector_payloads[i].isdict}
    IN IF bad = {} THEN 0 ELSE CHOOSE i \in bad : \A j \in bad : i <= j

\* insert_data_to_qdrant: the outcomes of one call.  An entry without .get
\* raises while the points are built, and a point without a vector is
\* refused; otherwise upsert returns or raises.
RagInsertOutcomes(vector_payloads, c, uu) ==
    IF FirstNotADict(vector_payloads) # 0
    THEN {[raised |-> TRUE, points |-> <<>>,
           uuids |-> uu + 1 + FirstNotADict(vector_payloads)]}
    ELSE IF \E i \in 1..Len(vector_payloads) : vector_payloads[i].vector = <<>>
    THEN {[raised |-> TRUE, points |-> <<>>, uuids |-> uu + 1 + Len(vector_payloads)]}
    ELSE {[raised |-> TRUE, points |-> <<>>, uuids |-> uu + 1 + Len(vector_payloads)],
          [raised |-> FALSE, points |-> RagPoints(vector_payloads, c, uu),
           uuids |-> uu + 1 + Len(vector_payloads)]}

(***************************************************************************)
(* backend/models/rag/qdrant.py.                                           *)
(***************************************************************************)
\* The payload of a point: the caller's payload, the session_id and the
\* tenant_id of the client.
ModelsPayload_ContentReplaced(payload, session_id, self_tenant_id) ==
    DictSet(DictSet(DictSet(payload, "content", [session_id |-> session_id]),
                    "session_id", session_id), "tenant_id", self_tenant_id)

ModelsPayload(payload, session_id, self_tenant_id) ==
    DictSet(DictSet(payload, "session_id", session_id), "tenant_id", self_tenant_id)

\* Entries that are dicts and have a non-empty vector.
ValidEntries_KeepsEmptyVectors(vector_payloads) ==
    SelectSeq(vector_payloads, LAMBDA vs : vs.isdict)

ValidEntries(vector_payloads) ==
    SelectSeq(vector_payloads, LAMBDA vs : vs.isdict /\ vs.vector # <<>>)

ModelsPoints(self_tenant_id, vector_payloads, c, uu) ==
    LET valid == ValidEntries(vector_payloads)
    IN [i \in 1..Len(valid) |->
           PointStruct(Uuid4(c, uu + 1 + i), valid[i].vector,
                       ModelsPayload(valid[i].payload, Uuid4(c, uu + 1), self_tenant_id))]

ModelsInsertOutcomes(self_tenant_id, vector_payloads, c, uu) ==
    LET points == ModelsPoints(self_tenant_id, vector_payloads, c, uu)
    IN IF points = <<>>
       THEN {[raised |-> TRUE, points |-> <<>>, uuids |-> uu + 1]}
       ELSE {[raised |-> TRUE, points |-> <<>>, uuids |-> uu + 1 + Len(points)],
             [raised |-> FALSE, points |-> points, uuids |-> uu + 1 + Len(points)]}


(***************************************************************************)
(* vectorize_information_to_qdrant (content_processor.py 226-250): the     *)
(* outcomes of one call.  Every exception is caught and reported.          *)
(***************************************************************************)
QdrantFailed_ReportsSuccess(ev, uu) ==
    [success |-> TRUE, info |-> None, error |-> Some(ev), ev |-> ev,
     points |-> <<>>, uuids |-> uu]

QdrantFailed(ev, uu) ==
    [success |-> FALSE, info |-> None, error |-> Some(ev), ev |-> ev,
     points |-> <<>>, uuids |-> uu]

QdrantStored(points, uu) ==
    [success |-> TRUE, info |-> Some("ack"), error |-> None, ev |-> "upsert_ok",
     points |-> points, uuids |-> uu]

vectorize_information_to_qdrant_NoMessage(vector_payloads, tenant_id, c, uu) ==
    {[QdrantFailed("connect_raise", uu) EXCEPT !.error = None]}
    \cup {IF o.raised
          THEN QdrantFailed(IF FirstNotADict(vector_payloads) # 0
                            THEN "build_raise" ELSE "upsert_raise", o.uuids)
          ELSE QdrantStored(o.points, o.uuids)
            : o \in RagInsertOutcomes(vector_payloads, c, uu)}

vectorize_information_to_qdrant(vector_payloads, tenant_id, c, uu) ==
    {QdrantFailed("connect_raise", uu)}
    \cup {IF o.raised
          THEN QdrantFailed(IF FirstNotADict(vector_payloads) # 0
                            THEN "build_raise" ELSE "upsert_raise", o.uuids)
          ELSE QdrantStored(o.points, o.uuids)
            : o \in RagInsertOutcomes(vector_payloads, c, uu)}

(***************************************************************************)
(* The results vectorize_and_store_web_content returns.                    *)
(***************************************************************************)
\* content_processor.py 101-106
ScrapeFailedResult_Stored(scrape_result) ==
    [success |-> FALSE, information |-> None, storage_success |-> TRUE,
     error |-> Some(<<"Web scraping failed: ", scrape_result.error[1]>>)]

ScrapeFailedResult(scrape_result) ==
    [success |-> FALSE, information |-> None, storage_success |-> FALSE,
     error |-> Some(<<"Web scraping failed: ", scrape_result.error[1]>>)]

\* content_processor.py 174-179
TryResult_ErrorSet(cleaned_content, qdrant_storage_result) ==
    [success |-> TRUE, information |-> Some(cleaned_content),
     storage_success |-> qdrant_storage_result.success,
     error |-> qdrant_storage_result.error]

TryResult(cleaned_content, qdrant_storage_result) ==
    [success |-> TRUE, information |-> Some(cleaned_content),
     storage_success |-> qdrant_storage_result.success, error |-> None]

\* content_processor.py 217-222
ExceptResult_Stored(e, qdrant_storage_result) ==
    [success |-> FALSE, information |-> None, storage_success |-> TRUE,
     error |-> Some(<<"Error during information identification: ", e>>)]

ExceptResult(e, qdrant_storage_result) ==
    [success |-> FALSE, information |-> None,
     storage_success |-> qdrant_storage_result.success,
     error |-> Some(<<"Error during information identification: ", e>>)]

(***************************************************************************)
(* vectorize_and_store_web_content, from the call to its first await.      *)
(* Requests are numbered in the order they arrive.                         *)
(***************************************************************************)
Start(r) ==
    /\ req[r].pc = "idle"
    /\ \A k \in 1..(r - 1) : req[k].pc # "idle"
    /\ \E tenant_id \in Tenants, scrape_result \in ScrapeResults :
        LET q == [req[r] EXCEPT !.tenant_id = tenant_id,
                                !.scrape_result = Some(scrape_result)]
        IN IF ~scrape_result.success
           THEN req' = [req EXCEPT ![r] =
                    [q EXCEPT !.pc = "returned",
                              !.result = Some(ScrapeFailedResult(scrape_result))]]
           ELSE \/ \E answer \in Answers :
                     req' = [req EXCEPT ![r] =
                        [q EXCEPT !.pc = "await_try",
                                  !.vector_payloads = DefaultPayloads,
                                  !.llm_response = Some(answer),
                                  !.cleaned_content = Some(CleanContent(answer)),
                                  !.log = Append(@, "llm_ok")]]
                \/ \E e \in LlmErrors :
                     req' = [req EXCEPT ![r] =
                        [q EXCEPT !.pc = "await_exc",
                                  !.vector_payloads = DefaultPayloads,
                                  !.e = Some(e),
                                  !.log = Append(@, "llm_raise")]]
    /\ UNCHANGED <<mongo, qdrant, uuids, store_calls, last_call, retrieval, fn>>

(***************************************************************************)
(* What follows an insert_web_content that returned (lines 151-179 in the  *)
(* try block, 194-222 in the except block): add_payload, then              *)
(* vectorize_information_to_qdrant, then the result.  In the try block an  *)
(* exception of add_payload enters the except block; in the except block   *)
(* it leaves the coroutine.  The except block reads neither llm_response   *)
(* nor cleaned_content, so they are dropped on entering it.                *)
(***************************************************************************)
AfterInsert(r, q, summary, in_try) ==
    LET mongo_id == ObjectId(r, Len(q.mongo_ids) + 1)
        q1 == [q EXCEPT !.mongo_ids = Append(@, mongo_id),
                        !.log = Append(@, "insert_ok")]
    IN \/ /\ req' = [req EXCEPT ![r] =
                 [q1 EXCEPT !.pc = IF in_try THEN "await_exc" ELSE "raised",
                            !.e = IF in_try THEN Some("embedding_error") ELSE @,
                            !.llm_response = None,
                            !.cleaned_content = None,
                            !.log = Append(@, "embed_raise")]]
          /\ UNCHANGED qdrant
       \/ LET payloads == add_payload(q.vector_payloads, q.tenant_id,
                              PayloadContent(summary, q.scrape_result[1], mongo_id),
                              q.scrape_result[1].original_url)
          IN \E o \in vectorize_information_to_qdrant(get_payloads(payloads),
                                                     q.tenant_id, r, q.uuids) :
               /\ req' = [req EXCEPT ![r] =
                     [q1 EXCEPT !.pc = "returned",
                                !.vector_payloads = payloads,
                                !.uuids = o.uuids,
                                !.log = @ \o <<"embed_ok", o.ev>>,
                                !.result = Some(IF in_try
                                                THEN TryResult(q.cleaned_content[1], o)
                                                ELSE ExceptResult(q.e[1], o))]]
               /\ qdrant' = IF o.success THEN Upsert(qdrant, o.points) ELSE qdrant

\* The await of line 141 completes.
ResumeTry(r) ==
    /\ req[r].pc = "await_try"
    /\ \/ /\ req' = [req EXCEPT ![r] =
                 [@ EXCEPT !.pc = "await_exc", !.e = Some("mongo_error"),
                           !.llm_response = None, !.cleaned_content = None,
                           !.log = Append(@, "insert_raise")]]
          /\ UNCHANGED <<mongo, qdrant>>
       \/ /\ mongo' = Insert(mongo,
                 WebContent(ObjectId(r, Len(req[r].mongo_ids) + 1), req[r].scrape_result[1].original_url,
                            req[r].scrape_result[1].all_text,
                            req[r].scrape_result[1].headings,
                            req[r].llm_response, req[r].cleaned_content,
                            req[r].tenant_id))
          /\ AfterInsert(r, req[r], req[r].cleaned_content, TRUE)
    /\ UNCHANGED <<uuids, store_calls, last_call, retrieval, fn>>

\* The await of line 184 completes.
ResumeExcept(r) ==
    /\ req[r].pc = "await_exc"
    /\ \/ /\ req' = [req EXCEPT ![r] =
                 [@ EXCEPT !.pc = "raised", !.log = Append(@, "insert_raise")]]
          /\ UNCHANGED <<mongo, qdrant>>
       \/ /\ mongo' = Insert(mongo,
                 WebContent(ObjectId(r, Len(req[r].mongo_ids) + 1), req[r].scrape_result[1].original_url,
                            req[r].scrape_result[1].all_text,
                            req[r].scrape_result[1].headings,
                            None, None, req[r].tenant_id))
          /\ AfterInsert(r, req[r], None, FALSE)
    /\ UNCHANGED <<uuids, store_calls, last_call, retrieval, fn>>

Next ==
    \/ \E r \in Requests : Start(r)
    \/ \E r \in Requests : ResumeTry(r)
    \/ \E r \in Requests : ResumeExcept(r)

Spec == Init /\ [][Next]_vars


(***************************************************************************)
(* Direct use of the two vector store clients.                             *)
(***************************************************************************)
\* Payloads a caller supplies: without a tenant_id, and with the tenant_id
\* of tenant b.
CallerContent == PayloadContent(None, ScrapeOk("u1"), ObjectId(0, 1))

PayloadWithoutTenant ==
    [url |-> "u1", content |-> CallerContent, timestamp |-> Str("now")]

\* The content of a second record, with a summary.
CallerContentB == PayloadContent(Some(<<"{", "}">>), ScrapeOk("u1"), ObjectId(0, 2))

PayloadOfTenantB == VectorPayload(Embedding, "u1", Uuid("b"), CallerContentB).payload

\* A payload that already carries a session_id: the first one the store
\* client has drawn.
PayloadWithSession == DictSet(PayloadOfTenantB, "session_id", Uuid4(0, 1))

Batches ==
    { <<DictEntry(Embedding, PayloadWithoutTenant)>>,
      <<DictEntry(Embedding, PayloadOfTenantB)>>,
      <<DictEntry(Embedding, PayloadWithoutTenant), DictEntry(Embedding, PayloadOfTenantB)>>,
      <<DictEntry(<<>>, PayloadOfTenantB)>>,
      <<DictEntry(<<>>, PayloadWithoutTenant), DictEntry(Embedding, PayloadOfTenantB)>>,
      <<NotADict, DictEntry(Embedding, PayloadWithoutTenant)>>,
      <<DictEntry(Embedding, PayloadWithSession), DictEntry(Embedding, PayloadWithoutTenant)>> }

Limits == {1, 5}

Min(a, b) == IF a < b THEN a ELSE b

\* client.search that returned: the limit best-ranked points among those
\* the filter lets through; which ones rank best is open.
SearchHits(candidates, limit) ==
    {H \in SUBSET candidates : Cardinality(H) = Min(limit, Cardinality(candidates))}

\* models.FieldCondition(key="tenant_id", match=models.MatchValue(value)).
MatchTenant(collection, value) ==
    {p \in collection : "tenant_id" \in DOMAIN p.payload /\ p.payload.tenant_id = value}

\* backend/models/rag/qdrant.py: QdrantVectorStore(self_tenant_id)
\* .insert_data_to_qdrant(vector_payloads, "web_content")
InsertModels(self_tenant_id, vector_payloads) ==
    /\ store_calls < MaxStoreInserts
    /\ \E o \in ModelsInsertOutcomes(self_tenant_id, vector_payloads, 0, uuids) :
         /\ qdrant' = IF o.raised THEN qdrant ELSE Upsert(qdrant, o.points)
         /\ uuids' = o.uuids
         /\ last_call' = [op |-> "insert_models", self_tenant_id |-> self_tenant_id,
                          tenant_id |-> PyNone, vector_payloads |-> vector_payloads,
                          raised |-> o.raised,
                          hits |-> IF o.raised THEN {} ELSE Upsert({}, o.points)]
    /\ store_calls' = store_calls + 1
    /\ UNCHANGED <<req, mongo, retrieval, fn>>

\* backend/rag/qdrant.py: QdrantVectorStore(self_tenant_id)
\* .insert_data_to_qdrant(vector_payloads, "web_content")
InsertRag(self_tenant_id, vector_payloads) ==
    /\ store_calls < MaxStoreInserts
    /\ \E o \in RagInsertOutcomes(vector_payloads, 0, uuids) :
         /\ qdrant' = IF o.raised THEN qdrant ELSE Upsert(qdrant, o.points)
         /\ uuids' = o.uuids
         /\ last_call' = [op |-> "insert_rag", self_tenant_id |-> self_tenant_id,
                          tenant_id |-> PyNone, vector_payloads |-> vector_payloads,
                          raised |-> o.raised,
                          hits |-> IF o.raised THEN {} ELSE Upsert({}, o.points)]
    /\ store_calls' = store_calls + 1
    /\ UNCHANGED <<req, mongo, retrieval, fn>>

\* backend/models/rag/qdrant.py: search_data_in_qdrant(collection_name,
\* query, tenant_id, limit).  get_embedding or client.search may raise.
SearchModels(self_tenant_id, tenant_id, limit) ==
    /\ \/ last_call' = [op |-> "search_models", self_tenant_id |-> self_tenant_id,
                        tenant_id |-> tenant_id, vector_payloads |-> <<>>,
                        raised |-> TRUE, hits |-> {}]
       \/ \E hits \in SearchHits(MatchTenant(qdrant, PyStr(tenant_id)), limit) :
            last_call' = [op |-> "search_models", self_tenant_id |-> self_tenant_id,
                          tenant_id |-> tenant_id, vector_payloads |-> <<>>,
                          raised |-> FALSE, hits |-> hits]
    /\ UNCHANGED <<req, mongo, qdrant, uuids, store_calls, retrieval, fn>>

\* backend/rag/qdrant.py: search_data_from_qdrant(collection_name, query,
\* tenant_id, limit).  filter_list is built and never handed to
\* client.search, which gets no query_filter.
SearchRag(self_tenant_id, tenant_id, limit) ==
    /\ \/ last_call' = [op |-> "search_rag", self_tenant_id |-> self_tenant_id,
                        tenant_id |-> tenant_id, vector_payloads |-> <<>>,
                        raised |-> TRUE, hits |-> {}]
       \/ \E hits \in SearchHits(qdrant, limit) :
            last_call' = [op |-> "search_rag", self_tenant_id |-> self_tenant_id,
                          tenant_id |-> tenant_id, vector_payloads |-> <<>>,
                          raised |-> FALSE, hits |-> hits]
    /\ UNCHANGED <<req, mongo, qdrant, uuids, store_calls, retrieval, fn>>

\* A session_id in a caller's payload is one the caller has read from a
\* stored point.
SessionsOf(vector_payloads) ==
    {vector_payloads[i].payload.session_id :
        i \in {j \in 1..Len(vector_payloads) :
                 /\ vector_payloads[j].isdict
                 /\ "session_id" \in DOMAIN vector_payloads[j].payload}}

SessionsStored(vector_payloads) ==
    \A s \in SessionsOf(vector_payloads) : \E p \in qdrant : p.payload.session_id = s

NextStore ==
    \/ \E t \in Tenants, b \in Batches : SessionsStored(b) /\ InsertModels(t, b)
    \/ \E t \in Tenants, b \in Batches : SessionsStored(b) /\ InsertRag(t, b)
    \/ \E s \in Tenants, t \in Tenants, limit \in Limits : SearchModels(s, t, limit)
    \/ \E s \in Tenants, t \in Tenants, limit \in Limits : SearchRag(s, t, limit)

SpecStore == Init /\ [][NextStore]_vars


(***************************************************************************)
(* Properties.                                                             *)
(***************************************************************************)
Has(log, ev) == \E i \in 1..Len(log) : log[i] = ev

Started(r) == req[r].scrape_result # None
FetchOk(r) == Started(r) /\ req[r].scrape_result[1].success
FetchFailed(r) == Started(r) /\ ~req[r].scrape_result[1].success
Ended(r) == req[r].pc \in {"returned", "raised"}

\* The records and points request r wrote.
RecordsOf(r) == {m \in mongo : m.id[1] = r}
PointsOf(r) == {p \in qdrant : p.id[2][1] = r}

\* The model call of request r raised.
ModelFailed(r) == Len(req[r].log) >= 1 /\ req[r].log[1] = "llm_raise"

UpsertAttempts == {"upsert_ok", "upsert_raise"}
VectorWriteFailures == {"upsert_raise", "connect_raise"}

\* C1: a failed fetch makes the coordinator return {success: false,
\* information: null, storage_success: false, error: "Web scraping failed:
\* <fetch error>"}, and the request calls neither the model nor a store.
C1_FailedFetchReturnsFailureWithoutWrites ==
    \A r \in Requests :
        FetchFailed(r) =>
            /\ req[r].pc = "returned"
            /\ req[r].result =
                 Some([success |-> FALSE, information |-> None,
                       storage_success |-> FALSE,
                       error |-> Some(<<"Web scraping failed: ",
                                        req[r].scrape_result[1].error[1]>>)])
            /\ req[r].log = <<>>
            /\ RecordsOf(r) = {}
            /\ PointsOf(r) = {}

C1_Witness ==
    \E r \in Requests :
        /\ FetchFailed(r)
        /\ req[r].scrape_result[1].error = Some("dns")
        /\ req[r].pc = "returned"
        /\ mongo # {}

\* C2: after a model failure the coordinator inserts a record with a null
\* summary, writes a point, and returns success=false, information=null,
\* with storage_success=true exactly when the writes landed.
C2_ModelFailureStillStoresAndReturns ==
    \A r \in Requests :
        (ModelFailed(r) /\ req[r].pc # "await_exc") =>
            /\ req[r].pc = "returned"
            /\ req[r].result[1].success = FALSE
            /\ req[r].result[1].information = None
            /\ \E m \in RecordsOf(r) : m.processed_content = None
            /\ \E i \in 1..Len(req[r].log) : req[r].log[i] \in UpsertAttempts
            /\ req[r].result[1].storage_success
                 <=> (Has(req[r].log, "insert_ok") /\ Has(req[r].log, "upsert_ok"))

\* C3: once the document-store insert has thrown, the request attempts no
\* vector-store upsert, and it returns storage_success=false with an error
\* that names the document-store failure.
C3_InsertFailureAbortsBeforeVectorWrite ==
    \A r \in Requests :
        Has(req[r].log, "insert_raise") =>
            /\ \A i, j \in 1..Len(req[r].log) :
                  (req[r].log[i] = "insert_raise" /\ i < j)
                      => req[r].log[j] \notin UpsertAttempts
            /\ req[r].pc = "returned" =>
                  /\ req[r].result[1].storage_success = FALSE
                  /\ req[r].result[1].error[1][2] = "mongo_error"

\* C4: success=true in a result implies that the fetch succeeded, the
\* model's cleaned answer parses as JSON, the document-store insert
\* succeeded and the vector-store upsert succeeded.
C4_SuccessImpliesAllStepsSucceeded ==
    \A r \in Requests :
        (req[r].pc = "returned" /\ req[r].result[1].success) =>
            /\ FetchOk(r)
            /\ ParsesAsJson(req[r].cleaned_content[1])
            /\ Has(req[r].log, "insert_ok")
            /\ Has(req[r].log, "upsert_ok")

\* C5: a request whose fetch succeeded and whose record was inserted has
\* exactly one new record in the document store once it has completed,
\* never two, and no record that was inserted is later missing.
C5_ExactlyOneRecordPerRequest ==
    \A r \in Requests :
        /\ (FetchOk(r) /\ Ended(r) /\ Has(req[r].log, "insert_ok"))
              => Cardinality(RecordsOf(r)) = 1
        /\ \A k \in 1..Len(req[r].mongo_ids) :
              \E m \in mongo : m.id = req[r].mongo_ids[k]

\* C6: no exception leaves vectorize_and_store_web_content: every request
\* that has ended has returned a result {success, information,
\* storage_success, error}.
C6_NoExceptionEscapes ==
    \A r \in Requests :
        Ended(r) =>
            /\ req[r].pc = "returned"
            /\ DOMAIN req[r].result[1] =
                 {"success", "information", "storage_success", "error"}

\* C7: a similarity search scoped to tenant A returns no point whose
\* payload tenant_id is that of another tenant B.
C7_SearchNeverReturnsOtherTenant ==
    (last_call.op \in {"search_models", "search_rag"}) =>
        \A h \in last_call.hits : \A B \in Tenants \ {last_call.tenant_id} :
            ~("tenant_id" \in DOMAIN h.payload /\ h.payload.tenant_id = JsonValue(B))

\* C8: every point insert_data_to_qdrant writes carries the tenant_id of
\* the store client in its payload, whatever the caller's payload held.
C8_WrittenPointsCarryClientTenant ==
    (last_call.op \in {"insert_models", "insert_rag"} /\ ~last_call.raised) =>
        \A p \in last_call.hits :
            /\ "tenant_id" \in DOMAIN p.payload
            /\ p.payload.tenant_id = JsonValue(last_call.self_tenant_id)

\* C9: every vector-store upsert attempt of a request comes after a
\* completed document-store insert of the same request, every stored point
\* refers back to a stored record of its request, and every record a
\* request inserted is still in the document store, also after a failed
\* vector-store write.
C9_DocumentWriteFirstAndNeverRolledBack ==
    \A r \in Requests :
        /\ \A i \in 1..Len(req[r].log) :
              req[r].log[i] \in UpsertAttempts
                  => \E j \in 1..(i - 1) : req[r].log[j] = "insert_ok"
        /\ \A p \in PointsOf(r) :
              \E m \in RecordsOf(r) : p.payload.content.mongo_id = Str(m.id)
        /\ \A k \in 1..Len(req[r].mongo_ids) :
              \E m \in RecordsOf(r) : m.id = req[r].mongo_ids[k]

C9_Witness ==
    \E r \in Requests :
        /\ req[r].pc = "returned"
        /\ Has(req[r].log, "upsert_raise")
        /\ RecordsOf(r) # {}
        /\ \E q \in Requests : PointsOf(q) # {}

\* The record the last insert_web_content of request r stored.
LastRecord(r) ==
    WebContent(req[r].mongo_ids[Len(req[r].mongo_ids)],
               req[r].scrape_result[1].original_url,
               req[r].scrape_result[1].all_text,
               req[r].scrape_result[1].headings,
               req[r].llm_response, req[r].cleaned_content, req[r].tenant_id)

\* C10: when the vector-store write fails after the document-store insert
\* succeeded, the result has storage_success=false, the inserted record is
\* in the document store as it was inserted, and the failed write is the
\* last call of the request: neither write is attempted again.
C10_VectorWriteFailureReportedNotRetried ==
    \A r \in Requests :
        (\E i \in 1..Len(req[r].log) : req[r].log[i] \in VectorWriteFailures) =>
            /\ req[r].pc = "returned"
            /\ req[r].result[1].storage_success = FALSE
            /\ LastRecord(r) \in mongo
            /\ Cardinality({m \in mongo : m.id = LastRecord(r).id}) = 1
            /\ req[r].log[Len(req[r].log)] \in VectorWriteFailures
            /\ Cardinality({i \in 1..Len(req[r].log) :
                              req[r].log[i] \in VectorWriteFailures \cup UpsertAttempts}) = 1
            /\ PointsOf(r) = {}

C10_Witness ==
    \E r \in Requests :
        /\ req[r].pc = "returned"
        /\ Has(req[r].log, "upsert_raise")
        /\ req[r].result[1].success = FALSE
        /\ LastRecord(r) \in mongo

\* The calls of one kind in the log of a request.
ModelCalls == {"llm_ok", "llm_raise"}
InsertCalls == {"insert_ok", "insert_raise"}
EmbedCalls == {"embed_ok", "embed_raise"}
UpsertCalls == {"upsert_ok", "upsert_raise", "connect_raise", "build_raise"}
Raises == {"llm_raise", "insert_raise", "embed_raise", "upsert_raise",
           "connect_raise", "build_raise"}

CallsOf(log, kind) == {i \in 1..Len(log) : log[i] \in kind}

\* C11: within one request the model invocation, the document-store
\* insert, the embedding and the vector-store upsert are each attempted at
\* most once, and a call that raised is not attempted again.
C11_EachExternalCallAtMostOnce ==
    \A r \in Requests :
        /\ \A kind \in {ModelCalls, InsertCalls, EmbedCalls, UpsertCalls} :
              Cardinality(CallsOf(req[r].log, kind)) <= 1
        /\ \A kind \in {ModelCalls, InsertCalls, EmbedCalls, UpsertCalls} :
              \A i, j \in CallsOf(req[r].log, kind) :
                  (i < j) => req[r].log[i] \notin Raises

\* C12: when the model call returned and the cleaned answer is not valid
\* JSON, the result has success=false and information=null, and the record
\* of the request is stored with a null summary, not with the unparseable
\* text.
C12_UnparseableAnswerIsAFailure ==
    \A r \in Requests :
        ( /\ req[r].pc = "returned"
          /\ req[r].cleaned_content # None
          /\ ~ParsesAsJson(req[r].cleaned_content[1]) ) =>
            /\ req[r].result[1].success = FALSE
            /\ req[r].result[1].information = None
            /\ \A m \in RecordsOf(r) : m.processed_content = None

\* json.loads on the answers of the model: the mapping the text denotes.
EmptyDict == <<"dict">>
JsonLoads(s) == IF ParsesAsJson(s) THEN EmptyDict ELSE PyNone

\* The request went through every step without an exception.
AllStepsOk(r) ==
    /\ req[r].pc = "returned"
    /\ req[r].log = <<"llm_ok", "insert_ok", "embed_ok", "upsert_ok">>

\* C13: when the fetch succeeded, the model returned well-formed JSON and
\* both store writes succeeded, the summary of the stored record is the
\* mapping the answer parses to, and the result is {success: true,
\* information: that mapping, storage_success: true, error: null}.
C13_SuccessStoresAndReturnsParsedMapping ==
    \A r \in Requests :
        (AllStepsOk(r) /\ ParsesAsJson(req[r].cleaned_content[1])) =>
            /\ \A m \in RecordsOf(r) :
                  m.processed_content = Some(JsonLoads(req[r].cleaned_content[1]))
            /\ RecordsOf(r) # {}
            /\ req[r].result =
                 Some([success |-> TRUE,
                       information |-> Some(JsonLoads(req[r].cleaned_content[1])),
                       storage_success |-> TRUE, error |-> None])

(***************************************************************************)
(* Context retrieval and prompt building.  The retriever asks the vector   *)
(* store client for the prior points of the tenant that are most similar   *)
(* to the query, formats them into two context blocks and hands them to    *)
(* get_prompts (content/prompts.py).  The retriever swallows every failure *)
(* of the search and yields empty context.                                 *)
(***************************************************************************)
\* Number of prior points the retriever asks for.
CONTEXT_LIMIT == 3

\* The rankings of the points of S: every order is possible.
Rankings(S) ==
    {s \in [1..Cardinality(S) -> S] : \A i, j \in 1..Cardinality(S) : s[i] = s[j] => i = j}

\* search_data_in_qdrant(collection_name, query, tenant_id, limit): the
\* outcomes of one call.  get_embedding(query) raises, client.search
\* raises, or the call returns the best-ranked points of the tenant, most
\* similar first.
SearchOutcomes(collection, tenant_id, limit) ==
    {[raised |-> TRUE, ev |-> "embed_query_raise", hits |-> <<>>],
     [raised |-> TRUE, ev |-> "search_raise", hits |-> <<>>]}
    \cup {[raised |-> FALSE, ev |-> "search_ok", hits |-> s] :
            s \in UNION {Rankings(H) :
                           H \in SearchHits(MatchTenant(collection, PyStr(tenant_id)), limit)}}

\* The context blocks: the summaries of the prior points, each tagged
\* "Document N", and their input headings.
OutputContext(hits) ==
    [i \in 1..Len(hits) |-> <<"Document", i, hits[i].payload.content.llm_response>>]

InputContext(hits) ==
    [i \in 1..Len(hits) |-> <<"Document", i, hits[i].payload.content.headings>>]

\* The retriever: empty context when the search raised or found nothing.
RetrievedContext(o) ==
    IF o.raised \/ o.hits = <<>>
    THEN [output_context |-> <<>>, input_context |-> <<>>]
    ELSE [output_context |-> OutputContext(o.hits), input_context |-> InputContext(o.hits)]

\* get_prompts(headings_subset, limited_text, output_context, input_context)
\* of content/prompts.py: the system prompt gets the context section when
\* output_context is truthy; the user prompt holds the text and headings.
get_prompts_ContextAlways(headings_subset, limited_text, output_context, input_context) ==
    <<<<"system">> \o <<"RELEVANT CONTEXT", input_context, output_context>>,
      <<"user", limited_text, headings_subset>>>>

get_prompts(headings_subset, limited_text, output_context, input_context) ==
    <<<<"system">> \o (IF output_context # <<>>
                       THEN <<"RELEVANT CONTEXT", input_context, output_context>>
                       ELSE <<>>),
      <<"user", limited_text, headings_subset>>>>

\* The document of the request whose context is retrieved.
CurrentDocument == ScrapeOk("u1")

\* A prior ingestion of tenant t left its points in the vector store.
PriorBatches ==
    {b \in Batches : Len(b) = 1 /\ ValidEntries(b) = b}

PriorIngestion(t, b) ==
    /\ retrieval.pc = "idle"
    /\ InsertModels(t, b)

\* RETRIEVING_CONTEXT: the retriever runs for tenant t.
RetrieveContext(t) ==
    /\ retrieval.pc = "idle"
    /\ \E o \in SearchOutcomes(qdrant, t, CONTEXT_LIMIT) :
         retrieval' = [retrieval EXCEPT
                          !.pc = "building_prompt", !.tenant_id = t, !.ev = o.ev,
                          !.hits = o.hits,
                          !.output_context = RetrievedContext(o).output_context,
                          !.input_context = RetrievedContext(o).input_context]
    /\ UNCHANGED <<req, mongo, qdrant, uuids, store_calls, last_call, fn>>

\* BUILDING_PROMPT: get_prompts is called; the model invocation is next.
BuildPrompts ==
    /\ retrieval.pc = "building_prompt"
    /\ retrieval' = [retrieval EXCEPT
                        !.pc = "invoking_model",
                        !.prompts = Some(get_prompts(
                            Take(CurrentDocument.headings, HEADING_LIMIT),
                            Take(CurrentDocument.all_text, TEXT_LIMIT),
                            retrieval.output_context, retrieval.input_context))]
    /\ UNCHANGED <<req, mongo, qdrant, uuids, store_calls, last_call, fn>>

NextContext ==
    \/ \E t \in Tenants, b \in PriorBatches : PriorIngestion(t, b)
    \/ \E t \in Tenants : RetrieveContext(t)
    \/ BuildPrompts

SpecContext == Init /\ [][NextContext]_vars

\* The prompts of a request that has no context.
PromptsWithoutContext ==
    <<<<"system">>,
      <<"user", Take(CurrentDocument.all_text, TEXT_LIMIT),
        Take(CurrentDocument.headings, HEADING_LIMIT)>>>>

\* The retrieval found no prior point of the tenant, or it failed.
NothingRetrieved ==
    \/ retrieval.ev \in {"embed_query_raise", "search_raise"}
    \/ /\ retrieval.ev = "search_ok"
       /\ MatchTenant(qdrant, PyStr(retrieval.tenant_id)) = {}

C15_ExactlyOnePointPerPersistingRequest ==
    \A r \in Requests :
        (Ended(r) /\ RecordsOf(r) # {}) => Cardinality(PointsOf(r)) = 1

\* C15, amended: a request never writes more than one point; a request
\* that has persisted a record and has ended has written exactly one point
\* when its vector-store upsert returned and none otherwise; a result with
\* storage_success=true comes with exactly one point.  This holds on the
\* model-success path and on the model-failure path.
C15_AtMostOnePointOneIffUpsertReturned ==
    \A r \in Requests :
        /\ Cardinality(PointsOf(r)) <= 1
        /\ (Ended(r) /\ RecordsOf(r) # {}) =>
              (Cardinality(PointsOf(r)) = 1 <=> Has(req[r].log, "upsert_ok"))
        /\ (req[r].pc = "returned" /\ req[r].result[1].storage_success) =>
              Cardinality(PointsOf(r)) = 1

C15_Witness ==
    \E r, q \in Requests :
        /\ ModelFailed(r) /\ req[r].pc = "returned"
        /\ RecordsOf(r) # {} /\ Cardinality(PointsOf(r)) = 1
        /\ AllStepsOk(q) /\ Cardinality(PointsOf(q)) = 1

\* The records a point refers back to by the identifier in its payload.
RecordsReferredBy(p) == {m \in mongo : p.payload.content.mongo_id = Str(m.id)}

\* C16: every point in the vector store carries the tenant_id of the
\* record its payload refers back to, after any sequence of requests of
\* any tenants; the point holds the canonical string of the record's UUID.
C16_PointTenantIsRecordTenant ==
    \A p \in qdrant :
        /\ RecordsReferredBy(p) # {}
        /\ \A m \in RecordsReferredBy(p) :
              p.payload.tenant_id = JsonValue(m.tenant_id)

C16_Witness ==
    \E p, q \in qdrant :
        /\ p.payload.tenant_id = JsonValue(Uuid("a"))
        /\ q.payload.tenant_id = JsonValue(Uuid("b"))
        /\ \E m \in RecordsReferredBy(p) : m.tenant_id = Uuid("a")
        /\ \E m \in RecordsReferredBy(q) : m.tenant_id = Uuid("b")

\* C17: all points written by one insert call carry one and the same
\* session_id; that session_id is fresh: no point written by an earlier
\* call carries it, and it is not a session_id the caller's payload held.
C17_OneFreshSessionPerInsert ==
    (last_call.op \in {"insert_models", "insert_rag"} /\ ~last_call.raised) =>
        /\ \A p, q \in last_call.hits : p.payload.session_id = q.payload.session_id
        /\ \A p \in last_call.hits : \A o \in qdrant \ last_call.hits :
              o.payload.session_id # p.payload.session_id
        /\ \A p \in last_call.hits : p.payload.session_id \notin SessionsOf(last_call.vector_payloads)

C17_Witness ==
    /\ last_call.op = "insert_rag" /\ ~last_call.raised
    /\ Cardinality(last_call.hits) = 2
    /\ \E o \in qdrant \ last_call.hits :
          o.payload.session_id \in SessionsOf(last_call.vector_payloads)

\* The result request r gets from its own inputs and the outcomes of its
\* own calls.
ResultAlone(r) ==
    LET q == req[r]
        stored == [success |-> Has(q.log, "upsert_ok")]
    IN IF ~q.scrape_result[1].success THEN ScrapeFailedResult(q.scrape_result[1])
       ELSE IF q.e = None THEN TryResult(CleanContent(q.llm_response[1]), stored)
       ELSE ExceptResult(q.e[1], stored)

\* C18: in every interleaving of the requests, every record and every
\* point a request wrote carries that request's tenant_id, URL and content,
\* the point also a session_id drawn by that request and the identifier of
\* one of that request's records, and the result of a request is the one
\* its own inputs and call outcomes give.
C18_RequestsAreIsolated ==
    \A r \in Requests :
        /\ \A m \in RecordsOf(r) :
              /\ m.tenant_id = req[r].tenant_id
              /\ m.url = req[r].scrape_result[1].original_url
              /\ m.raw_text = req[r].scrape_result[1].all_text
              /\ m.headings = req[r].scrape_result[1].headings
              /\ m.llm_raw_response # None
                    => (req[r].llm_response # None
                          => m.llm_raw_response = req[r].llm_response)
        /\ \A p \in PointsOf(r) :
              /\ p.payload.tenant_id = JsonValue(req[r].tenant_id)
              /\ p.payload.url = req[r].scrape_result[1].original_url
              /\ p.payload.content.all_text
                    = Take(req[r].scrape_result[1].all_text, TEXT_LIMIT)
              /\ p.payload.content.headings
                    = Take(req[r].scrape_result[1].headings, HEADING_LIMIT)
              /\ p.payload.content.llm_response \in {None, req[r].cleaned_content}
              /\ \E k \in 1..Len(req[r].mongo_ids) :
                    p.payload.content.mongo_id = Str(req[r].mongo_ids[k])
              /\ p.payload.session_id[2][1] = r
        /\ \A m \in mongo : m.id[1] \in Requests
        /\ \A p \in qdrant : p.id[2][1] \in Requests /\ p.payload.session_id[2][1] = p.id[2][1]
        /\ req[r].pc = "returned" => req[r].result = Some(ResultAlone(r))

\* Request 2 of tenant b ran from its start to its end, and wrote a record
\* and a point, while request 1 of tenant a, which has written a record,
\* is suspended at the await of its except block.
C18_Witness ==
    /\ req[1].tenant_id = Uuid("a") /\ req[2].tenant_id = Uuid("b")
    /\ req[1].pc = "await_exc" /\ RecordsOf(1) # {}
    /\ req[2].pc = "returned"
    /\ RecordsOf(2) # {} /\ PointsOf(2) # {}

\* The step of the coordinator a call belongs to: model invocation,
\* document persistence, vectorization (embedding, then upsert).
StepOf(ev) ==
    IF ev \in ModelCalls THEN 1
    ELSE IF ev \in InsertCalls THEN 2
    ELSE IF ev \in EmbedCalls THEN 3
    ELSE 4

\* C19: every request runs its steps in the order model invocation,
\* document persistence, vectorization and visits no step twice; a request
\* that has ended makes no call, and a request whose fetch failed makes
\* none at all.
C19_StepsInOrderNoStepTwice ==
    \A r \in Requests :
        /\ \A i, j \in 1..Len(req[r].log) :
              i < j => StepOf(req[r].log[i]) < StepOf(req[r].log[j])
        /\ FetchFailed(r) => req[r].log = <<>>
        /\ req[r].pc \in {"idle", "await_try", "await_exc", "returned", "raised"}

(***************************************************************************)
(* The headings of a page.  scrape_url collects the heading tags of the    *)
(* page in document order, one {title: level} per tag; the coordinator and *)
(* get_prompts take the slice [:HEADING_LIMIT] of that list.               *)
(***************************************************************************)
\* Longest page, in heading tags.
MaxHeadings == 11

\* The heading levels, most important first, and those the pages use.
LevelOrder == <<"h1", "h2", "h3", "h4", "h5", "h6">>
PageLevels == {"h1", "h2"}

\* A page: the levels of its heading tags in document order.  The title of
\* a heading is its position in the page.
Pages == UNION {[1..n -> PageLevels] : n \in 0..MaxHeadings}

\* scrape_url: headings.append({title: level}) for every tag found.
ScrapeHeadings(page) ==
    [i \in 1..Len(page) |-> [title |-> i, level |-> page[i]]]

\* scrape_result["information"]["headings"][:HEADING_LIMIT]
HeadingsSubset_NoLimit(headings) == headings

HeadingsSubset(headings) == Take(headings, HEADING_LIMIT)

InitHeadings ==
    /\ req = [r \in Requests |-> IdleRequest]
    /\ mongo = {}
    /\ qdrant = {}
    /\ uuids = 0
    /\ store_calls = 0
    /\ last_call = NoCall
    /\ retrieval = IdleRetrieval
    /\ fn \in {[op |-> "none", arg |-> page, out |-> <<>>] : page \in Pages}

\* The page is scraped and the subset of its headings is taken.
TakeHeadingsSubset ==
    /\ fn.op = "none"
    /\ fn' = [op |-> "headings_subset", arg |-> fn.arg,
              out |-> HeadingsSubset(ScrapeHeadings(fn.arg))]
    /\ UNCHANGED <<req, mongo, qdrant, uuids, store_calls, last_call, retrieval>>

NextHeadings == TakeHeadingsSubset

SpecHeadings == InitHeadings /\ [][NextHeadings]_vars

\* The headings as a mapping from level to the titles of that level, in
\* document order.
ByLevel(headings) ==
    [l \in {LevelOrder[i] : i \in 1..Len(LevelOrder)} |->
        LET at == SelectSeq(headings, LAMBDA h : h.level = l)
        IN [i \in 1..Len(at) |-> at[i].title]]

RECURSIVE CountUpTo(_, _)
CountUpTo(m, i) == IF i = 0 THEN 0 ELSE Len(m[LevelOrder[i]]) + CountUpTo(m, i - 1)

LevelIndex(l) == CHOOSE i \in 1..Len(LevelOrder) : LevelOrder[i] = l

\* The mapping filled level by level from h1 to h6 up to cap titles.
GreedyByLevel(m, cap) ==
    [l \in DOMAIN m |->
        LET left == cap - CountUpTo(m, LevelIndex(l) - 1)
        IN Take(m[l], IF left < 0 THEN 0 ELSE left)]

MaxTextLen == 3

\* All variables but fn are as in Init.
RestIdle ==
    /\ req = [r \in Requests |-> IdleRequest]
    /\ mongo = {}
    /\ qdrant = {}
    /\ uuids = 0
    /\ store_calls = 0
    /\ last_call = NoCall
    /\ retrieval = IdleRetrieval

Texts == UNION {[1..n -> {"t", " "}] : n \in 1..MaxTextLen}

\* What the coordinator has at hand when it calls add_payload: the cleaned
\* answer (None in the except block) and the scrape result.
PayloadInputs ==
    {[summary |-> s,
      scrape_result |-> [ScrapeOk("u1") EXCEPT !.all_text = t, !.headings = h]] :
        s \in {None} \cup {Some(CleanContent(a)) : a \in Answers},
        t \in Texts, h \in {<<>>, <<"h">>}}

\* content["input_text"]: the text handed to get_embedding, or KeyError.
EmbeddingInput(content) ==
    IF "input_text" \in DOMAIN content THEN Some(content.input_text) ELSE None

\* The outcomes of add_payload(content, url): KeyError when content has no
\* "input_text"; otherwise get_embedding raises, or the payload is appended.
AddPayloadOutcomes(vector_payloads, tenant_id, content, url) ==
    IF EmbeddingInput(content) = None
    THEN {[raised |-> TRUE, error |-> "KeyError", embedded |-> None,
           vector_payloads |-> vector_payloads]}
    ELSE {[raised |-> TRUE, error |-> "embedding_error", embedded |-> EmbeddingInput(content),
           vector_payloads |-> vector_payloads],
          [raised |-> FALSE, error |-> "none", embedded |-> EmbeddingInput(content),
           vector_payloads |-> add_payload(vector_payloads, tenant_id, content, url)]}

InitPayload ==
    /\ RestIdle
    /\ fn \in {[op |-> "none", arg |-> x, out |-> <<>>] : x \in PayloadInputs}

\* processor.add_payload(content={...}, url=...) of the coordinator.
CallAddPayload(tenant_id) ==
    /\ fn.op = "none"
    /\ \E o \in AddPayloadOutcomes(DefaultPayloads, tenant_id,
                    PayloadContent(fn.arg.summary, fn.arg.scrape_result, ObjectId(1, 1)),
                    fn.arg.scrape_result.original_url) :
         fn' = [op |-> "add_payload", arg |-> fn.arg, out |-> o]
    /\ UNCHANGED <<req, mongo, qdrant, uuids, store_calls, last_call, retrieval>>

NextPayload == \E tenant_id \in Tenants : CallAddPayload(tenant_id)

SpecPayload == InitPayload /\ [][NextPayload]_vars

\* C21: the embedding of the point is computed from the model summary when
\* there is one and from the truncated raw text when the summary is null,
\* from no other field, and add_payload fails for no other reason than the
\* embedding service: a missing summary does not keep the point from being
\* built.
C21_EmbeddingFromSummaryElseRawText ==
    fn.op = "add_payload" =>
        /\ fn.out.raised => fn.out.error = "embedding_error"
        /\ fn.out.embedded =
              IF fn.arg.summary # None THEN fn.arg.summary
              ELSE Some(Take(fn.arg.scrape_result.all_text, TEXT_LIMIT))

(***************************************************************************)
(* Cleaning of the model answer (content_processor.py 135-137), applied    *)
(* to answers put together from fences, backticks, whitespace and text.    *)
(***************************************************************************)
\* Longest answer, in pieces.
MaxPieces == 4

Pieces ==
    {FENCE_JSON, FENCE, <<BT>>, <<" ">>, <<"\n">>, <<"{", "}">>, <<"j", "s", "o", "n">>}

RECURSIVE Concat(_)
Concat(ps) == IF ps = <<>> THEN <<>> ELSE Head(ps) \o Concat(Tail(ps))

RawAnswers == {Concat(ps) : ps \in UNION {[1..n -> Pieces] : n \in 0..MaxPieces}}

InitClean ==
    /\ RestIdle
    /\ fn \in {[op |-> "none", arg |-> s, out |-> <<>>] : s \in RawAnswers}

\* The answer is cleaned.
Clean ==
    /\ fn.op = "none"
    /\ fn' = [op |-> "clean", arg |-> fn.arg, out |-> <<CleanContent(fn.arg)>>]
    /\ UNCHANGED <<req, mongo, qdrant, uuids, store_calls, last_call, retrieval>>

\* The cleaned answer is cleaned once more; out holds both results.
CleanAgain ==
    /\ fn.op = "clean"
    /\ fn' = [op |-> "clean_again", arg |-> fn.arg,
              out |-> Append(fn.out, CleanContent(fn.out[1]))]
    /\ UNCHANGED <<req, mongo, qdrant, uuids, store_calls, last_call, retrieval>>

NextClean == Clean \/ CleanAgain

SpecClean == InitClean /\ [][NextClean]_vars

\* A string without a fence marker and without whitespace around it.
IsClean(s) ==
    /\ \A i \in 1..Len(s) : ~IsPrefixAt(s, FENCE, i)
    /\ s # <<>> => ~IsSpace(s[1]) /\ ~IsSpace(s[Len(s)])

\* C22: cleaning a string that is already clean returns it unchanged, and
\* cleaning the cleaned answer returns the cleaned answer: for every s,
\* clean(clean(s)) = clean(s).
C22_CleaningIsIdempotent ==
    /\ (fn.op = "clean" /\ IsClean(fn.arg)) => fn.out[1] = fn.arg
    /\ fn.op = "clean_again" => fn.out[2] = fn.out[1] /\ IsClean(fn.out[1])

\* An answer in which removing the json fence brings a new fence together,
\* cleaned twice.
C22_Witness ==
    /\ fn.op = "clean_again"
    /\ fn.arg = FENCE \o FENCE_JSON \o <<"j", "s", "o", "n">> \o <<"\n">>
    /\ fn.out = << <<"j", "s", "o", "n">>, <<"j", "s", "o", "n">> >>

\* The entries of the last insert call that were written, and the point
\* written for the i-th of them, as the store holds it: the call drew its
\* point ids last, one per written entry.
WrittenEntries == ValidEntries(last_call.vector_payloads)

WrittenPoint(i) ==
    CHOOSE p \in last_call.hits : p.id = Uuid4(0, uuids - Len(WrittenEntries) + i)

AddedKeys == {"session_id", "tenant_id"}

\* C23: a point that was written reads back with the payload.content that
\* was submitted; insert_data_to_qdrant adds or overrides the top-level
\* keys session_id and tenant_id only, every other top-level key and the
\* whole content mapping are as submitted.
C23_ContentRoundTrip ==
    (last_call.op \in {"insert_models", "insert_rag"} /\ ~last_call.raised) =>
        /\ last_call.hits \subseteq qdrant
        /\ Cardinality(last_call.hits) = Len(WrittenEntries)
        /\ \A i \in 1..Len(WrittenEntries) :
              /\ \E p \in last_call.hits : p.id = Uuid4(0, uuids - Len(WrittenEntries) + i)
              /\ WrittenPoint(i).payload.content = WrittenEntries[i].payload.content
              /\ DOMAIN WrittenPoint(i).payload \ AddedKeys
                    = DOMAIN WrittenEntries[i].payload \ AddedKeys
              /\ \A k \in DOMAIN WrittenEntries[i].payload \ AddedKeys :
                    WrittenPoint(i).payload[k] = WrittenEntries[i].payload[k]

\* Two entries with different contents, one of them with the tenant_id of
\* tenant b, written by the client of tenant a.
C23_Witness ==
    /\ last_call.op = "insert_models" /\ ~last_call.raised
    /\ last_call.self_tenant_id = Uuid("a")
    /\ Len(WrittenEntries) = 2
    /\ WrittenPoint(1).payload.content = CallerContent
    /\ WrittenPoint(2).payload.content = CallerContentB
    /\ WrittenPoint(2).payload.tenant_id = JsonValue(Uuid("a"))

\* The request that wrote point p.
RequestOf(p) == p.id[2][1]

\* The back-reference of p is the identifier the document store returned
\* for the record its request inserted last, and that record is stored.
RefersToInsertedRecord(p) ==
    LET ids == req[RequestOf(p)].mongo_ids
    IN /\ ids # <<>>
       /\ p.payload.content.mongo_id = Str(ids[Len(ids)])
       /\ \E m \in RecordsOf(RequestOf(p)) : m.id = ids[Len(ids)]

\* C24: the payload of every stored point has at least the keys
\* source_url, tenant_id, content, timestamp and session_id, and its
\* content refers back to the record the same request inserted.
C24_PayloadKeysAndBackReference ==
    \A p \in qdrant :
        /\ {"source_url", "tenant_id", "content", "timestamp", "session_id"}
              \subseteq DOMAIN p.payload
        /\ RefersToInsertedRecord(p)

\* C24, amended: the payload of every stored point has at least the keys
\* url, tenant_id, content, timestamp and session_id, and its content
\* refers back, under mongo_id, to the record the same request inserted
\* last.
C24_PayloadKeysUrlAndBackReference ==
    \A p \in qdrant :
        /\ {"url", "tenant_id", "content", "timestamp", "session_id"}
              \subseteq DOMAIN p.payload
        /\ "mongo_id" \in DOMAIN p.payload.content
        /\ RefersToInsertedRecord(p)

\* A point of a request that inserted two records: it refers to the
\* second one.
C24_Witness ==
    \E p \in qdrant :
        /\ Len(req[RequestOf(p)].mongo_ids) = 2
        /\ p.payload.content.mongo_id = Str(req[RequestOf(p)].mongo_ids[2])
        /\ "session_id" \in DOMAIN p.payload

(***************************************************************************)
(* The document store on its own: MongoDBManager.insert_web_content and    *)
(* the lookups by URL of both revisions (models/mongo/db_manager.py 34-81, *)
(* models/mongodb.py 66-111), called directly with any URL and tenant.     *)
(***************************************************************************)
\* Records inserted by direct calls of the manager.
MaxMongoInserts == 3

MongoUrls == {"u1", "u2"}

\* WebContent.find(WebContent.url == url, WebContent.tenant_id == tenant_id).to_list()
Find_UrlOnly(collection, url, tenant_id) ==
    {m \in collection : m.url = url}

Find(collection, url, tenant_id) ==
    {m \in collection : m.url = url /\ m.tenant_id = tenant_id}

InitMongo ==
    /\ RestIdle
    /\ fn = NoFn

\* MongoDBManager.insert_web_content(url, tenant_id, ...) of db_manager.py;
\* mongodb.py's takes tenant_id: Optional[UUID] = None.
InsertWebContent(url, tenant_id) ==
    /\ Cardinality(mongo) < MaxMongoInserts
    /\ LET content == WebContent(ObjectId(0, Cardinality(mongo) + 1), url, "t", <<>>,
                                 None, None, tenant_id)
       IN /\ mongo' = Insert(mongo, content)
          /\ fn' = [op |-> "insert_web_content",
                    arg |-> [url |-> url, tenant_id |-> tenant_id],
                    out |-> {content}]
    /\ UNCHANGED <<req, qdrant, uuids, store_calls, last_call, retrieval>>

\* MongoDBManager.get_content_by_url_and_tenant_id(url, tenant_id).
GetContentByUrlAndTenantId(url, tenant_id) ==
    /\ fn' = [op |-> "get_content_by_url_and_tenant_id",
              arg |-> [url |-> url, tenant_id |-> tenant_id],
              out |-> Find(mongo, url, tenant_id)]
    /\ UNCHANGED <<req, mongo, qdrant, uuids, store_calls, last_call, retrieval>>

\* MongoDBManager.get_content_by_url(url, tenant_id=None) of mongodb.py.
GetContentByUrl(url, tenant_id) ==
    /\ fn' = [op |-> "get_content_by_url",
              arg |-> [url |-> url, tenant_id |-> tenant_id],
              out |-> Find(mongo, url, tenant_id)]
    /\ UNCHANGED <<req, mongo, qdrant, uuids, store_calls, last_call, retrieval>>

NextMongo ==
    \E url \in MongoUrls :
        \/ \E tenant_id \in Tenants \cup {PyNone} : InsertWebContent(url, tenant_id)
        \/ \E tenant_id \in Tenants : GetContentByUrlAndTenantId(url, tenant_id)
        \/ \E tenant_id \in Tenants \cup {PyNone} : GetContentByUrl(url, tenant_id)

SpecMongo == InitMongo /\ [][NextMongo]_vars

Lookups == {"get_content_by_url_and_tenant_id", "get_content_by_url"}

\* C25: a lookup by URL for a tenant returns only records of that URL and
\* that tenant, whatever the store holds, so never a record of another
\* tenant; and a record is inserted with the tenant_id of the call that
\* created it.
C25_LookupScopedByTenant ==
    /\ fn.op \in Lookups =>
          /\ \A m \in fn.out : m.tenant_id = fn.arg.tenant_id /\ m.url = fn.arg.url
          /\ fn.out \subseteq mongo
    /\ fn.op = "insert_web_content" =>
          \A m \in fn.out : m \in mongo /\ m.tenant_id = fn.arg.tenant_id

\* A lookup for one tenant found a record while the store holds a record
\* of the same URL that belongs to the other tenant.
C25_Witness ==
    /\ fn.op \in Lookups
    /\ fn.arg.tenant_id \in Tenants
    /\ fn.out # {}
    /\ \E m \in mongo : m.url = fn.arg.url /\ m.tenant_id \in Tenants \ {fn.arg.tenant_id}

(***************************************************************************)
(* get_prompts (content/prompts.py 6-101) on its own, applied to any       *)
(* headings, text and pair of optional context blocks.                     *)
(***************************************************************************)
\* Prior documents quoted in one context block.
MaxContextDocs == 2

\* A context block: None (or the empty string) is <<>>; otherwise the
\* entries of the prior documents.
ContextBlocks(what) ==
    {[i \in 1..n |-> <<"Document", i, what>>] : n \in 0..MaxContextDocs}

PromptInputs ==
    {[headings_subset |-> h, limited_text |-> t, output_context |-> oc, input_context |-> ic] :
        h \in {<<>>, <<"h">>}, t \in Texts,
        oc \in ContextBlocks("summary"), ic \in ContextBlocks("headings")}

InitPrompts ==
    /\ RestIdle
    /\ fn \in {[op |-> "none", arg |-> x, out |-> <<>>] : x \in PromptInputs}

CallGetPrompts ==
    /\ fn.op = "none"
    /\ fn' = [op |-> "get_prompts", arg |-> fn.arg,
              out |-> get_prompts(fn.arg.headings_subset, fn.arg.limited_text,
                                  fn.arg.output_context, fn.arg.input_context)]
    /\ UNCHANGED <<req, mongo, qdrant, uuids, store_calls, last_call, retrieval>>

NextPrompts == CallGetPrompts

SpecPrompts == InitPrompts /\ [][NextPrompts]_vars

\* The system prompt without a context section, and with one quoting both
\* blocks.
BaseSystemPrompt == <<"system">>

SystemPromptWithContext(input_context, output_context) ==
    <<"system", "RELEVANT CONTEXT", input_context, output_context>>

\* C26: get_prompts extends the system prompt with the relevant-context
\* section, quoting the input-context block and the output-context block
\* verbatim, exactly when the context is non-empty; with empty context
\* (both blocks empty) the system prompt is the base prompt; the user
\* prompt is the same in both cases.
C26_ContextSectionIffContextNonEmpty ==
    fn.op = "get_prompts" =>
        /\ fn.out[1] =
              IF fn.arg.output_context = <<>> /\ fn.arg.input_context = <<>>
              THEN BaseSystemPrompt
              ELSE SystemPromptWithContext(fn.arg.input_context, fn.arg.output_context)
        /\ fn.out[2] = <<"user", fn.arg.limited_text, fn.arg.headings_subset>>

\* C27: in every result the coordinator returns, error is null exactly when
\* success is true, and information is null exactly when success is false.
C27_ErrorAndInformationFollowSuccess ==
    \A r \in Requests :
        req[r].result # None =>
            /\ req[r].result[1].error = None <=> req[r].result[1].success
            /\ req[r].result[1].information = None <=> ~req[r].result[1].success

\* One request returned its summary although the vector write failed,
\* another returned the failure of the model call.
C27_Witness ==
    \E r, s \in Requests :
        /\ req[r].result # None /\ req[s].result # None
        /\ req[r].result[1].success /\ ~req[r].result[1].storage_success
        /\ req[r].result[1].error = None /\ req[r].result[1].information # None
        /\ ~req[s].result[1].success /\ Has(req[s].log, "llm_raise")
        /\ req[s].result[1].error # None /\ req[s].result[1].information = None

\* C28: storage_success is true only when, in the same request, the
\* insert into the document store completed and the upsert into the vector
\* store returned without raising: the request's record and its point are
\* both in their stores.
C28_StorageSuccessMeansBothWritesLanded ==
    \A r \in Requests :
        (req[r].result # None /\ req[r].result[1].storage_success) =>
            /\ Has(req[r].log, "insert_ok")
            /\ req[r].log[Len(req[r].log)] = "upsert_ok"
            /\ Raises \cap {"upsert_raise", "connect_raise", "build_raise"}
                 \cap {req[r].log[i] : i \in 1..Len(req[r].log)} = {}
            /\ LastRecord(r) \in mongo
            /\ \E p \in PointsOf(r) : RefersToInsertedRecord(p)

\* The model call failed and both writes landed: success is false and
\* storage_success is true.
C28_Witness ==
    \E r \in Requests :
        /\ req[r].result # None
        /\ req[r].result[1].storage_success /\ ~req[r].result[1].success
        /\ req[r].log = <<"llm_raise", "insert_ok", "embed_ok", "upsert_ok">>
        /\ RecordsOf(r) # {} /\ PointsOf(r) # {}

(***************************************************************************)
(* vectorize_information_to_qdrant (content_processor.py 226-250) called   *)
(* on its own with any batch of entries: the client is constructed and     *)
(* insert_data_to_qdrant is called inside one try block.                   *)
(***************************************************************************)
Vectorize(tenant_id, vector_payloads) ==
    /\ store_calls < MaxStoreInserts
    /\ \E o \in vectorize_information_to_qdrant(vector_payloads, tenant_id, 0, uuids) :
         /\ qdrant' = IF o.success THEN Upsert(qdrant, o.points) ELSE qdrant
         /\ uuids' = o.uuids
         /\ last_call' = [op |-> IF o.ev = "connect_raise" THEN "connect" ELSE "insert_rag",
                          self_tenant_id |-> tenant_id, tenant_id |-> PyNone,
                          vector_payloads |-> vector_payloads,
                          raised |-> o.ev # "upsert_ok",
                          hits |-> Upsert({}, o.points)]
         /\ fn' = [op |-> "vectorize_information_to_qdrant",
                   arg |-> [vector_payloads |-> vector_payloads, tenant_id |-> tenant_id],
                   out |-> [success |-> o.success, info |-> o.info, error |-> o.error]]
    /\ store_calls' = store_calls + 1
    /\ UNCHANGED <<req, mongo, retrieval>>

NextVectorize ==
    \E t \in Tenants, b \in Batches : SessionsStored(b) /\ Vectorize(t, b)

SpecVectorize == Init /\ [][NextVectorize]_vars

\* C29: vectorize_information_to_qdrant returns a result whatever happens:
\* when constructing the client or the insert raised, the result is
\* {success: false, info: null, error: message}; success is true only when
\* the upsert returned, and then info is the acknowledgement of the store,
\* error is null and the points are in the store.
C29_VectorizeReportsEveryFailure ==
    fn.op = "vectorize_information_to_qdrant" =>
        /\ last_call.raised =>
              /\ fn.out.success = FALSE
              /\ fn.out.info = None
              /\ fn.out.error # None
              /\ last_call.hits = {}
        /\ fn.out.success =>
              /\ last_call.op = "insert_rag" /\ ~last_call.raised
              /\ fn.out.info = Some("ack")
              /\ fn.out.error = None
              /\ last_call.hits # {} /\ last_call.hits \subseteq qdrant
        /\ ~fn.out.success => last_call.raised

\* After a call that stored points, a call fails to construct the client
\* and returns the failure.
C29_Witness ==
    /\ fn.op = "vectorize_information_to_qdrant"
    /\ ~fn.out.success /\ fn.out.error # None
    /\ last_call.op = "connect"
    /\ qdrant # {}

\* The entries insert_data_to_qdrant has to write: mappings with a
\* non-empty vector.
Remaining(vector_payloads) ==
    {i \in 1..Len(vector_payloads) :
        vector_payloads[i].isdict /\ vector_payloads[i].vector # <<>>}

PointIds(points) == {p.id : p \in points}

\* C30: a call of insert_data_to_qdrant (models/rag/qdrant.py) that returns
\* has added to the store, in one upsert, exactly one point for every entry
\* that is a mapping with a non-empty vector and none for the other
\* entries, each point under an id of its own that no stored point had;
\* a call with no such entry raises, and a call that raises leaves the
\* store as it was.
C30_InsertSkipsInvalidWritesRestAtOnce ==
    [][(last_call'.op = "insert_models" /\ store_calls' = store_calls + 1) =>
          LET vector_payloads == last_call'.vector_payloads
              written == last_call'.hits
          IN /\ Remaining(vector_payloads) = {} => last_call'.raised
             /\ last_call'.raised => qdrant' = qdrant /\ written = {}
             /\ ~last_call'.raised =>
                   /\ qdrant' = qdrant \cup written
                   /\ Cardinality(PointIds(written)) = Cardinality(Remaining(vector_payloads))
                   /\ PointIds(written) \cap PointIds(qdrant) = {}
                   /\ \A i \in Remaining(vector_payloads) :
                         \E p \in written :
                            /\ p.vector = vector_payloads[i].vector
                            /\ p.payload.content = vector_payloads[i].payload.content
                   /\ \A p \in written : p.vector # <<>>
    ]_vars

\* A batch with an entry without a vector and a valid one was written: one
\* point; and the store already held points of an earlier call.
C30_Witness ==
    /\ last_call.op = "insert_models"
    /\ ~last_call.raised
    /\ Len(last_call.vector_payloads) = 2
    /\ Cardinality(Remaining(last_call.vector_payloads)) = 1
    /\ Cardinality(last_call.hits) = 1
    /\ qdrant \ last_call.hits # {}

====
